---- MODULE Spec2Model ----
(***************************************************************************)
(* Model of the ERF client (src/client.go): a manager that hands out the   *)
(* current fingerprint token, loads it lazily from one backing file,       *)
(* rotates it when the clock reaches its expiry and writes every new       *)
(* record to the file before caching it.                                   *)
(*                                                                         *)
(* Conventions.  A Go pointer or slice that may be nil is a sequence of    *)
(* length 0 (nil) or 1 (the value).  A string is a sequence of symbols, so *)
(* the empty string is << >>.  int64 and uint keep their two's-complement  *)
(* behaviour at a scaled-down width of IntBits bits.                       *)
(***************************************************************************)
EXTENDS Integers, Sequences, FiniteSets, TLC

VARIABLES
    file,         \* the backing file at the path tokenFile (shared by all managers)
    now,          \* what clock.Now().Unix() returns
    refresh,      \* the refresh argument the program passes to New (client.refresh)
    claims,       \* claims[m]: client.claims (nil or one record)
    jwt,          \* jwt[m]: client.jwt (nil or the cached bytes)
    constructed,  \* constructed[m]: newWithClock returned &c for manager m
    nextUuid,     \* how many identifiers uuid.NewV4 has supplied so far
    last,         \* the most recent Token() call: its inputs, its result, the
                  \* manager object and the file before and after it
    returned,     \* returned[m]: the bytes manager m's latest successful call returned
    failedFrom,   \* failedFrom[m]: nil, or the cached claims of manager m before
                  \* the first of the failed calls it has made in a row
    minted,       \* minted[m]: the records manager m has minted, in order
    origin,       \* origin[m]: "missing" or "file", what manager m found at the
                  \* file path when it was constructed ("-" before that)
    thr           \* the goroutines inside Token() on client "m1": pc[t] where
                  \* goroutine t is, nc[t] its newClaims, overlapped whether two
                  \* calls have ever been in progress together

vars == <<file, now, refresh, claims, jwt, constructed, nextUuid, last,
          returned, failedFrom, minted, origin, thr>>

----------------------------------------------------------------------------
(* Bounds of the model *)

\* width in bits of int64 and uint in the model (64 in the program)
IntBits == 4
\* the clock reads 0..MaxNow
MaxNow == 3
\* number of identifiers uuid.NewV4 can supply in one run
MaxMint == 3
\* number of identifiers uuid.NewV4 can supply in one run of the step-by-step
\* specification
MaxConcMint == 2

\* the managers (two objects bound to the same file; the second is a restart
\* or a second instance)
Clients == {"m1", "m2"}
\* the goroutines of one program that call Token() on the client "m1"
Threads == {"t1", "t2"}

----------------------------------------------------------------------------
(* Machine integers *)

RECURSIVE Pow2(_)
Pow2(n) == IF n = 0 THEN 1 ELSE 2 * Pow2(n - 1)

MinInt64 == -Pow2(IntBits - 1)
MaxInt64 == Pow2(IntBits - 1) - 1
MaxUint == Pow2(IntBits) - 1

\* the value an int64 holds after an operation whose exact result is x
\* (conversion from uint and addition both wrap)
Int64(x) == ((x - MinInt64) % Pow2(IntBits)) + MinInt64

\* The refresh values New is called with (every uint is accepted): zero, small
\* ones, the largest that int64 holds, the smallest that converts to a
\* negative int64, and the largest uint.
RefreshValues == {0, 1, 2, MaxInt64, MaxInt64 + 1, MaxUint}

----------------------------------------------------------------------------
(* nil, strings, errors *)

Nil == << >>
EmptyString == << >>

\* uuid.NewV4().String(): the n-th identifier supplied; identifiers differ
\* from each other and from the empty string
NewV4(n) == <<n>>

\* errors.Wrap / errors.WithMessage: an error is the chain of its messages,
\* outermost first; the nil error is the empty chain
Wrap(err, msg) == <<msg>> \o err
New(msg) == <<msg>>

----------------------------------------------------------------------------
(* The claims codec: jwt.NewWithClaims(...).SignedString and erf.ParseToken *)

\* The token bytes of a claims record: an unsigned ("none") JWT whose payload
\* carries the five fields.
SignedString(c) ==
    <<"none", c.IssuedAt, c.ExpiresAt, c.SequenceNo, c.Subject, c.Previous>>

\* Decoding: bytes that are no complete token, or lack a required field, give
\* an error; a decoded token whose Valid flag is not set gives no error.
ParseToken(b) ==
    IF Len(b) = 6 /\ b[1] \in {"none", "unverified"}
    THEN [err |-> Nil,
          valid |-> (b[1] = "none"),
          claims |-> [IssuedAt |-> b[2], ExpiresAt |-> b[3], SequenceNo |-> b[4],
                      Subject |-> b[5], Previous |-> b[6]]]
    ELSE [err |-> New("token is malformed"), valid |-> FALSE, claims |-> Nil]

----------------------------------------------------------------------------
(* The file system calls *)

NoFile == [exists |-> FALSE, bytes |-> << >>, perm |-> "-"]

\* What can go wrong in one call of Token(): nothing, os.Stat failing with an
\* error other than not-exist, ioutil.ReadFile failing, SignedString failing,
\* ioutil.WriteFile failing to open the file, or failing to write after it
\* has created or truncated it.
Faults == {"none", "stat", "read", "sign", "open", "trunc"}

\* variant of WriteFile that opens the file to append (no O_TRUNC)
WriteFileAppend(f, data, perm, fault) ==
    IF fault = "open"
    THEN [file |-> f, err |-> New("open failed"), io |-> <<"open!">>]
    ELSE LET opened == [exists |-> TRUE, bytes |-> f.bytes,
                        perm |-> IF f.exists THEN f.perm ELSE perm]
         IN  IF fault = "trunc"
             THEN [file |-> opened, err |-> New("write failed"),
                   io |-> <<"open", "write!">>]
             ELSE [file |-> [opened EXCEPT !.bytes = f.bytes \o data], err |-> Nil,
                   io |-> <<"open", "write">>]

\* ioutil.WriteFile(name, data, perm): O_WRONLY|O_CREATE|O_TRUNC; perm is
\* used only when the file is created.  io lists the system calls made,
\* a failed one marked "!".
WriteFile(f, data, perm, fault) ==
    IF fault = "open"
    THEN [file |-> f, err |-> New("open failed"), io |-> <<"open!">>]
    ELSE LET opened == [exists |-> TRUE, bytes |-> << >>,
                        perm |-> IF f.exists THEN f.perm ELSE perm]
         IN  IF fault = "trunc"
             THEN [file |-> opened, err |-> New("write failed"),
                   io |-> <<"open", "write!">>]
             ELSE [file |-> [opened EXCEPT !.bytes = data], err |-> Nil,
                   io |-> <<"open", "write">>]

\* variant of readFile that reports a missing file as an error
readFileStrict(f, fault) ==
    IF fault = "stat"
    THEN [bytes |-> Nil, err |-> New("stat failed"), io |-> <<"stat!">>]
    ELSE IF ~f.exists
    THEN [bytes |-> Nil, err |-> New("file does not exist"), io |-> <<"stat">>]
    ELSE IF fault = "read"
    THEN [bytes |-> Nil, err |-> New("read failed"), io |-> <<"stat", "read!">>]
    ELSE [bytes |-> <<f.bytes>>, err |-> Nil, io |-> <<"stat", "read">>]

\* variant of readFile that takes every failure for a missing file
readFileLenient(f, fault) ==
    IF fault = "stat"
    THEN [bytes |-> Nil, err |-> Nil, io |-> <<"stat!">>]
    ELSE IF ~f.exists
    THEN [bytes |-> Nil, err |-> Nil, io |-> <<"stat">>]
    ELSE IF fault = "read"
    THEN [bytes |-> Nil, err |-> Nil, io |-> <<"stat", "read!">>]
    ELSE [bytes |-> <<f.bytes>>, err |-> Nil, io |-> <<"stat", "read">>]

\* readFile: nil bytes and no error when the file does not exist
readFile(f, fault) ==
    IF fault = "stat"
    THEN [bytes |-> Nil, err |-> New("stat failed"), io |-> <<"stat!">>]
    ELSE IF ~f.exists
    THEN [bytes |-> Nil, err |-> Nil, io |-> <<"stat">>]
    ELSE IF fault = "read"
    THEN [bytes |-> Nil, err |-> New("read failed"), io |-> <<"stat", "read!">>]
    ELSE [bytes |-> <<f.bytes>>, err |-> Nil, io |-> <<"stat", "read">>]

----------------------------------------------------------------------------
(* client: c is the object [refresh, claims, jwt]; f the file; t the clock  *)
(* reading; u the identifier uuid.NewV4 supplies; fault what goes wrong.    *)

\* variants of the staleness test: an exclusive boundary; a test that fires a
\* second early
IsStaleExclusive(c, t) == c.claims = Nil \/ t > c.claims[1].ExpiresAt
IsStaleEarly(c, t) == c.claims = Nil \/ t >= c.claims[1].ExpiresAt - 1

\* the staleness test of Token()
IsStale(c, t) == c.claims = Nil \/ t >= c.claims[1].ExpiresAt

\* variant of newClaims that starts a new chain when the cached record has
\* been expired for a second or more
newClaimsRestart(c, t, u) ==
    LET chained == c.claims # Nil /\ t <= c.claims[1].ExpiresAt
    IN  [IssuedAt |-> t,
         ExpiresAt |-> Int64(t + Int64(c.refresh)),
         Subject |-> u,
         SequenceNo |-> IF chained THEN Int64(c.claims[1].SequenceNo + 1) ELSE 0,
         Previous |-> IF chained THEN c.claims[1].Subject ELSE EmptyString]

\* variant of newClaims that copies the sequence number of the cached record
newClaimsSameSeq(c, t, u) ==
    [IssuedAt |-> t,
     ExpiresAt |-> Int64(t + Int64(c.refresh)),
     Subject |-> u,
     SequenceNo |-> IF c.claims # Nil THEN c.claims[1].SequenceNo ELSE 0,
     Previous |-> IF c.claims # Nil THEN c.claims[1].Subject ELSE EmptyString]

\* variant of newClaims whose sequence number also counts the whole refresh
\* intervals that have elapsed since the cached record expired
newClaimsElapsed(c, t, u) ==
    [IssuedAt |-> t,
     ExpiresAt |-> Int64(t + Int64(c.refresh)),
     Subject |-> u,
     SequenceNo |->
         IF c.claims = Nil THEN 0
         ELSE Int64(c.claims[1].SequenceNo + 1
                    + IF c.refresh > 0 /\ t >= c.claims[1].ExpiresAt
                      THEN (t - c.claims[1].ExpiresAt) \div c.refresh
                      ELSE 0),
     Previous |-> IF c.claims # Nil THEN c.claims[1].Subject ELSE EmptyString]

\* the record persistNewToken builds
newClaims(c, t, u) ==
    [IssuedAt |-> t,
     ExpiresAt |-> Int64(t + Int64(c.refresh)),
     Subject |-> u,
     SequenceNo |-> IF c.claims # Nil THEN Int64(c.claims[1].SequenceNo + 1) ELSE 0,
     Previous |-> IF c.claims # Nil THEN c.claims[1].Subject ELSE EmptyString]

\* variant of persistNewToken that caches the new record before it writes the
\* file
persistNewTokenCacheFirst(c, f, t, u, fault) ==
    LET nc == newClaims(c, t, u)
        jwtString == SignedString(nc)
        cached == [c EXCEPT !.claims = <<nc>>, !.jwt = <<jwtString>>]
    IN  IF fault = "sign"
        THEN [c |-> c, file |-> f, io |-> << >>,
              err |-> Wrap(New("signing failed"), "failed to create token")]
        ELSE LET w == WriteFile(f, jwtString, "0600", fault)
             IN  [c |-> cached, file |-> w.file, io |-> w.io, err |-> w.err]

\* persistNewToken: the object and the file after it, and its error
persistNewToken(c, f, t, u, fault) ==
    LET nc == newClaims(c, t, u)
        jwtString == SignedString(nc)
    IN  IF fault = "sign"
        THEN [c |-> c, file |-> f, io |-> << >>,
              err |-> Wrap(New("signing failed"), "failed to create token")]
        ELSE LET w == WriteFile(f, jwtString, "0600", fault)
             IN  IF w.err # Nil
                 THEN [c |-> c, file |-> w.file, io |-> w.io, err |-> w.err]
                 ELSE [c |-> [c EXCEPT !.claims = <<nc>>, !.jwt = <<jwtString>>],
                       file |-> w.file, io |-> w.io, err |-> Nil]

\* variant of LoadCache that goes on with an empty cache when the file does
\* not decode
LoadCacheSkipCorrupt(c, f, fault) ==
    IF c.claims # Nil
    THEN [c |-> c, err |-> Nil, io |-> << >>]
    ELSE LET rd == readFile(f, fault)
         IN  IF rd.err # Nil
             THEN [c |-> c, err |-> Wrap(rd.err, "failed to read token file"), io |-> rd.io]
             ELSE IF rd.bytes = Nil
             THEN [c |-> c, err |-> Nil, io |-> rd.io]
             ELSE LET p == ParseToken(rd.bytes[1])
                  IN  IF p.err # Nil \/ ~p.valid
                      THEN [c |-> c, err |-> Nil, io |-> rd.io]
                      ELSE [c |-> [c EXCEPT !.jwt = rd.bytes, !.claims = <<p.claims>>],
                            err |-> Nil, io |-> rd.io]

\* variant of LoadCache that decodes the file but does not cache the result
LoadCacheDiscard(c, f, fault) ==
    IF c.claims # Nil
    THEN [c |-> c, err |-> Nil, io |-> << >>]
    ELSE LET rd == readFile(f, fault)
         IN  IF rd.err # Nil
             THEN [c |-> c, err |-> Wrap(rd.err, "failed to read token file"), io |-> rd.io]
             ELSE IF rd.bytes = Nil
             THEN [c |-> c, err |-> Nil, io |-> rd.io]
             ELSE LET p == ParseToken(rd.bytes[1])
                  IN  IF p.err # Nil
                      THEN [c |-> c, err |-> Wrap(p.err, "failed to parse token"), io |-> rd.io]
                      ELSE IF ~p.valid
                      THEN [c |-> c, err |-> New("failed to read token"), io |-> rd.io]
                      ELSE [c |-> c, err |-> Nil, io |-> rd.io]

\* variant of LoadCache that reads the file on every call, cached or not
LoadCacheAlways(c, f, fault) ==
    LET rd == readFile(f, fault)
    IN  IF rd.err # Nil
        THEN [c |-> c, err |-> Wrap(rd.err, "failed to read token file"), io |-> rd.io]
        ELSE IF rd.bytes = Nil
        THEN [c |-> c, err |-> Nil, io |-> rd.io]
        ELSE LET p == ParseToken(rd.bytes[1])
             IN  IF p.err # Nil
                 THEN [c |-> c, err |-> Wrap(p.err, "failed to parse token"), io |-> rd.io]
                 ELSE IF ~p.valid
                 THEN [c |-> c, err |-> New("failed to read token"), io |-> rd.io]
                 ELSE [c |-> [c EXCEPT !.jwt = rd.bytes, !.claims = <<p.claims>>],
                       err |-> Nil, io |-> rd.io]

\* The first part of Token(): with nothing cached, read the file and cache
\* what it holds.
LoadCache(c, f, fault) ==
    IF c.claims # Nil
    THEN [c |-> c, err |-> Nil, io |-> << >>]
    ELSE LET rd == readFile(f, fault)
         IN  IF rd.err # Nil
             THEN [c |-> c, err |-> Wrap(rd.err, "failed to read token file"), io |-> rd.io]
             ELSE IF rd.bytes = Nil
             THEN [c |-> c, err |-> Nil, io |-> rd.io]
             ELSE LET p == ParseToken(rd.bytes[1])
                  IN  IF p.err # Nil
                      THEN [c |-> c, err |-> Wrap(p.err, "failed to parse token"), io |-> rd.io]
                      ELSE IF ~p.valid
                      THEN [c |-> c, err |-> New("failed to read token"), io |-> rd.io]
                      ELSE [c |-> [c EXCEPT !.jwt = rd.bytes, !.claims = <<p.claims>>],
                            err |-> Nil, io |-> rd.io]

\* variant of Token() that writes the cached bytes back to the file when the
\* cached record is not stale
TokenWriteBack(c, f, t, u, fault) ==
    LET ld == LoadCache(c, f, fault)
    IN  IF ld.err # Nil
        THEN [ret |-> Nil, err |-> ld.err, c |-> ld.c, file |-> f,
              start |-> ld.c, rotate |-> FALSE, io |-> ld.io]
        ELSE IF IsStale(ld.c, t)
        THEN LET p == persistNewToken(ld.c, f, t, u, fault)
             IN  IF p.err # Nil
                 THEN [ret |-> Nil, err |-> Wrap(p.err, "failed to create new token"),
                       c |-> p.c, file |-> p.file, start |-> ld.c, rotate |-> TRUE,
                       io |-> ld.io \o p.io]
                 ELSE [ret |-> p.c.jwt, err |-> Nil, c |-> p.c, file |-> p.file,
                       start |-> ld.c, rotate |-> TRUE, io |-> ld.io \o p.io]
        ELSE LET w == WriteFile(f, ld.c.jwt[1], "0600", "none")
             IN  [ret |-> ld.c.jwt, err |-> Nil, c |-> ld.c, file |-> w.file,
                  start |-> ld.c, rotate |-> FALSE, io |-> ld.io \o w.io]

\* variant of Token() that falls back on the cached bytes when the rotation
\* fails
TokenSwallow(c, f, t, u, fault) ==
    LET ld == LoadCache(c, f, fault)
    IN  IF ld.err # Nil
        THEN [ret |-> Nil, err |-> ld.err, c |-> ld.c, file |-> f,
              start |-> ld.c, rotate |-> FALSE, io |-> ld.io]
        ELSE IF IsStale(ld.c, t)
        THEN LET p == persistNewToken(ld.c, f, t, u, fault)
             IN  IF p.err # Nil /\ ld.c.claims = Nil
                 THEN [ret |-> Nil, err |-> Wrap(p.err, "failed to create new token"),
                       c |-> p.c, file |-> p.file, start |-> ld.c, rotate |-> TRUE,
                       io |-> ld.io \o p.io]
                 ELSE [ret |-> p.c.jwt, err |-> Nil, c |-> p.c, file |-> p.file,
                       start |-> ld.c, rotate |-> TRUE, io |-> ld.io \o p.io]
        ELSE [ret |-> ld.c.jwt, err |-> Nil, c |-> ld.c, file |-> f,
              start |-> ld.c, rotate |-> FALSE, io |-> ld.io]

\* Token(): the bytes and error it returns, the object and the file after it;
\* start is the object when the staleness test is made, rotate whether
\* persistNewToken was called, io the system calls made.
Token(c, f, t, u, fault) ==
    LET ld == LoadCache(c, f, fault)
    IN  IF ld.err # Nil
        THEN [ret |-> Nil, err |-> ld.err, c |-> ld.c, file |-> f,
              start |-> ld.c, rotate |-> FALSE, io |-> ld.io]
        ELSE IF IsStale(ld.c, t)
        THEN LET p == persistNewToken(ld.c, f, t, u, fault)
             IN  IF p.err # Nil
                 THEN [ret |-> Nil, err |-> Wrap(p.err, "failed to create new token"),
                       c |-> p.c, file |-> p.file, start |-> ld.c, rotate |-> TRUE,
                       io |-> ld.io \o p.io]
                 ELSE [ret |-> p.c.jwt, err |-> Nil, c |-> p.c, file |-> p.file,
                       start |-> ld.c, rotate |-> TRUE, io |-> ld.io \o p.io]
        ELSE [ret |-> ld.c.jwt, err |-> Nil, c |-> ld.c, file |-> f,
              start |-> ld.c, rotate |-> FALSE, io |-> ld.io]

----------------------------------------------------------------------------
(* The state machine *)

\* a record an earlier run of the program left in the file
PriorRecord ==
    [IssuedAt |-> 0, ExpiresAt |-> 2, SequenceNo |-> 1,
     Subject |-> NewV4(0), Previous |-> NewV4(-1)]

\* file contents that are no valid token: an empty file, bytes that are no
\* token, a token cut short, a token that decodes but is not valid
CorruptBytes ==
    {<< >>, <<"garbage">>, SubSeq(SignedString(PriorRecord), 1, 5),
     <<"unverified">> \o Tail(SignedString(PriorRecord))}

InitFiles ==
    {NoFile}
    \cup {[exists |-> TRUE, bytes |-> b, perm |-> "0600"] : b \in CorruptBytes}
    \cup {[exists |-> TRUE, bytes |-> SignedString(PriorRecord), perm |-> p] :
            p \in {"0600", "0644"}}

NoCall ==
    [op |-> "none", m |-> "-", now |-> 0,
     pre |-> [refresh |-> 0, claims |-> Nil, jwt |-> Nil], preFile |-> NoFile,
     returnedBefore |-> Nil, failedFromBefore |-> Nil,
     res |-> [ret |-> Nil, err |-> Nil,
              c |-> [refresh |-> 0, claims |-> Nil, jwt |-> Nil],
              file |-> NoFile,
              start |-> [refresh |-> 0, claims |-> Nil, jwt |-> Nil],
              rotate |-> FALSE, io |-> << >>]]

Init ==
    /\ file \in InitFiles
    /\ now = 0
    /\ refresh \in RefreshValues
    /\ claims = [m \in Clients |-> Nil]
    /\ jwt = [m \in Clients |-> Nil]
    /\ constructed = [m \in Clients |-> FALSE]
    /\ nextUuid = 1
    /\ last = NoCall
    /\ returned = [m \in Clients |-> Nil]
    /\ failedFrom = [m \in Clients |-> Nil]
    /\ minted = [m \in Clients |-> << >>]
    /\ origin = [m \in Clients |-> "-"]
    /\ thr = [pc |-> [t \in Threads |-> "idle"], nc |-> [t \in Threads |-> Nil],
              overlapped |-> FALSE]

\* a second passes on the clock the managers read
Tick ==
    /\ now < MaxNow
    /\ now' = now + 1
    /\ UNCHANGED <<file, refresh, claims, jwt, constructed, nextUuid, last,
                   returned, failedFrom, minted, origin, thr>>

\* what a call of Token() by manager m leaves behind, whoever made it
Called(op, m, c, res) ==
    /\ file' = res.file
    /\ nextUuid' = IF res.rotate THEN nextUuid + 1 ELSE nextUuid
    /\ last' = [op |-> op, m |-> m, now |-> now, pre |-> c, preFile |-> file,
                returnedBefore |-> returned[m], failedFromBefore |-> failedFrom[m],
                res |-> res]
    /\ returned' = IF res.err = Nil THEN [returned EXCEPT ![m] = res.ret] ELSE returned
    /\ failedFrom' =
         IF res.err = Nil \/ op = "New"
         THEN [failedFrom EXCEPT ![m] = Nil]
         ELSE IF failedFrom[m] = Nil
         THEN [failedFrom EXCEPT ![m] = <<c.claims>>]
         ELSE failedFrom
    /\ minted' = IF res.rotate /\ res.err = Nil
                 THEN [minted EXCEPT ![m] = Append(@, res.c.claims[1])]
                 ELSE minted

\* newWithClock(tokenFile, refresh, clock): build the object, call Token()
\* once, return the object only if that call succeeded
newWithClock(m) ==
    /\ ~constructed[m]
    /\ nextUuid <= MaxMint
    /\ \E fault \in Faults :
         LET c == [refresh |-> refresh, claims |-> Nil, jwt |-> Nil]
             res == Token(c, file, now, NewV4(nextUuid), fault)
         IN  /\ Called("New", m, c, res)
             /\ IF res.err = Nil
                THEN /\ constructed' = [constructed EXCEPT ![m] = TRUE]
                     /\ origin' = [origin EXCEPT ![m] = IF file.exists THEN "file" ELSE "missing"]
                     /\ claims' = [claims EXCEPT ![m] = res.c.claims]
                     /\ jwt' = [jwt EXCEPT ![m] = res.c.jwt]
                ELSE UNCHANGED <<constructed, claims, jwt, origin>>
    /\ UNCHANGED <<now, refresh, thr>>

\* a caller's Token() on a constructed manager
CallToken(m) ==
    /\ constructed[m]
    /\ nextUuid <= MaxMint
    /\ \E fault \in Faults :
         LET c == [refresh |-> refresh, claims |-> claims[m], jwt |-> jwt[m]]
             res == Token(c, file, now, NewV4(nextUuid), fault)
         IN  /\ Called("Token", m, c, res)
             /\ claims' = [claims EXCEPT ![m] = res.c.claims]
             /\ jwt' = [jwt EXCEPT ![m] = res.c.jwt]
    /\ UNCHANGED <<now, refresh, constructed, origin, thr>>

Next ==
    \/ Tick
    \/ \E m \in Clients : newWithClock(m)
    \/ \E m \in Clients : CallToken(m)

Spec == Init /\ [][Next]_vars

\* one manager alone on the file
NextOne ==
    \/ Tick
    \/ newWithClock("m1")
    \/ CallToken("m1")

SpecOne == Init /\ [][NextOne]_vars

----------------------------------------------------------------------------
(* Token() on the client "m1" step by step, for goroutines that call it     *)
(* with no synchronisation: the client has no lock, so the reads and writes *)
(* of c.claims, c.jwt and the file by two calls interleave.                 *)

\* the rest of the state, which no step of a goroutine changes
ConcFrame == <<refresh, constructed, last, failedFrom, origin>>

\* lines 69-91: the load block and the staleness test
TokenCheck(t) ==
    /\ constructed["m1"]
    /\ thr.pc[t] = "idle"
    /\ nextUuid <= MaxConcMint
    /\ LET c == [refresh |-> refresh, claims |-> claims["m1"], jwt |-> jwt["m1"]]
           ld == LoadCache(c, file, "none")
       IN  /\ claims' = [claims EXCEPT !["m1"] = ld.c.claims]
           /\ jwt' = [jwt EXCEPT !["m1"] = ld.c.jwt]
           /\ thr' = [thr EXCEPT
                        !.pc[t] = IF ld.err # Nil THEN "idle"
                                  ELSE IF IsStale(ld.c, now) THEN "mint" ELSE "ret",
                        !.overlapped = @ \/ \E o \in Threads \ {t} : thr.pc[o] # "idle"]
    /\ UNCHANGED <<file, now, nextUuid, returned, minted, ConcFrame>>

\* lines 120-138: read the clock, build newClaims from c.claims, sign it
persistMint(t) ==
    /\ thr.pc[t] = "mint"
    /\ nextUuid <= MaxConcMint
    /\ nextUuid' = nextUuid + 1
    /\ \E fault \in {"none", "sign"} :
         LET c == [refresh |-> refresh, claims |-> claims["m1"], jwt |-> jwt["m1"]]
         IN  thr' = IF fault = "sign"
                    THEN [thr EXCEPT !.pc[t] = "idle"]
                    ELSE [thr EXCEPT !.pc[t] = "write",
                                     !.nc[t] = <<newClaims(c, now, NewV4(nextUuid))>>]
    /\ UNCHANGED <<file, now, claims, jwt, returned, minted, ConcFrame>>

\* lines 140-143: write the signed record to the file
persistWrite(t) ==
    /\ thr.pc[t] = "write"
    /\ \E fault \in {"none", "open", "trunc"} :
         LET w == WriteFile(file, SignedString(thr.nc[t][1]), "0600", fault)
         IN  /\ file' = w.file
             /\ IF w.err # Nil
                THEN /\ thr' = [thr EXCEPT !.pc[t] = "idle", !.nc[t] = Nil]
                     /\ UNCHANGED minted
                ELSE /\ thr' = [thr EXCEPT !.pc[t] = "setclaims"]
                     /\ minted' = [minted EXCEPT !["m1"] = Append(@, thr.nc[t][1])]
    /\ UNCHANGED <<now, claims, jwt, nextUuid, returned, ConcFrame>>

\* line 145: c.claims = newClaims
persistSetClaims(t) ==
    /\ thr.pc[t] = "setclaims"
    /\ claims' = [claims EXCEPT !["m1"] = thr.nc[t]]
    /\ thr' = [thr EXCEPT !.pc[t] = "setjwt"]
    /\ UNCHANGED <<file, now, jwt, nextUuid, returned, minted, ConcFrame>>

\* variant of persistSetJwt that leaves c.jwt as it is
persistSetJwtSkip(t) ==
    /\ thr.pc[t] = "setjwt"
    /\ thr' = [thr EXCEPT !.pc[t] = "ret", !.nc[t] = Nil]
    /\ UNCHANGED <<file, now, claims, jwt, nextUuid, returned, minted, ConcFrame>>

\* line 146: c.jwt = []byte(jwtString)
persistSetJwt(t) ==
    /\ thr.pc[t] = "setjwt"
    /\ jwt' = [jwt EXCEPT !["m1"] = <<SignedString(thr.nc[t][1])>>]
    /\ thr' = [thr EXCEPT !.pc[t] = "ret", !.nc[t] = Nil]
    /\ UNCHANGED <<file, now, claims, nextUuid, returned, minted, ConcFrame>>

\* line 98: return c.jwt, nil
TokenReturn(t) ==
    /\ thr.pc[t] = "ret"
    /\ returned' = [returned EXCEPT !["m1"] = jwt["m1"]]
    /\ thr' = [thr EXCEPT !.pc[t] = "idle"]
    /\ UNCHANGED <<file, now, claims, jwt, nextUuid, minted, ConcFrame>>

NextConc ==
    \/ Tick
    \/ newWithClock("m1")
    \/ \E t \in Threads : TokenCheck(t)
    \/ \E t \in Threads : persistMint(t)
    \/ \E t \in Threads : persistWrite(t)
    \/ \E t \in Threads : persistSetClaims(t)
    \/ \E t \in Threads : persistSetJwt(t)
    \/ \E t \in Threads : TokenReturn(t)

SpecConc == Init /\ [][NextConc]_vars

----------------------------------------------------------------------------
(* Properties.  They are stated on last, the record of the most recent     *)
(* Token() call (made by newWithClock or by a caller), and on the history   *)
(* variables.                                                               *)

Has(io, e) == \E i \in DOMAIN io : io[i] = e
Last(q) == q[Len(q)]

\* a call has been made; it returned no error; it rotated successfully
CallMade == last.op # "none"
Succeeded == CallMade /\ last.res.err = Nil
RotatedOK == Succeeded /\ last.res.rotate
\* the record cached when the staleness test was made, and the record cached
\* when the call returned
StartRec == last.res.start.claims[1]
EndRec == last.res.c.claims[1]

\* C1: chain linkage.  Every successful rotation from a cached record P to a
\* new record N gives N.SequenceNo = P.SequenceNo + 1, N.Previous = P.Subject
\* and N.Subject # P.Subject; and for a manager constructed on a missing file
\* the k-th record it mints has SequenceNo k-1, the first has an empty
\* Previous and every later one has the Subject of the one before it as its
\* Previous.
C1_ChainLinkage ==
    /\ (RotatedOK /\ last.res.start.claims # Nil) =>
          /\ EndRec.SequenceNo = StartRec.SequenceNo + 1
          /\ EndRec.Previous = StartRec.Subject
          /\ EndRec.Subject # StartRec.Subject
    /\ \A m \in Clients :
          origin[m] = "missing" =>
             \A k \in 1..Len(minted[m]) :
                /\ minted[m][k].SequenceNo = k - 1
                /\ minted[m][k].Previous =
                      IF k = 1 THEN EmptyString ELSE minted[m][k - 1].Subject

\* a manager constructed on a missing file has minted three records and the
\* last call was its rotation to the third
C1_Witness ==
    /\ RotatedOK
    /\ last.res.start.claims # Nil
    /\ origin[last.m] = "missing"
    /\ Len(minted[last.m]) = 3
    /\ \A k \in 1..3 : minted[last.m][k].ExpiresAt = minted[last.m][k].IssuedAt + 1
    /\ EndRec = minted[last.m][3]

\* C2: the rotation boundary is inclusive.  A call that finds a cached record
\* with the clock below its ExpiresAt does not rotate: it calls no
\* persistNewToken, writes nothing, leaves the cache as it is and returns the
\* cached bytes.  A call that finds the clock at or above ExpiresAt rotates:
\* persistNewToken runs, and the call either returns the bytes of a new
\* successor record, now cached and in the file, or returns the rotation's
\* error and no bytes; it never returns the stale bytes.
C2_RotationBoundary ==
    (CallMade /\ last.res.start.claims # Nil) =>
        IF last.now < StartRec.ExpiresAt
        THEN /\ ~last.res.rotate
             /\ last.res.err = Nil
             /\ last.res.ret = last.res.start.jwt
             /\ last.res.c = last.res.start
             /\ last.res.file = last.preFile
             /\ ~Has(last.res.io, "open")
        ELSE /\ last.res.rotate
             /\ last.res.err = Nil =>
                   /\ last.res.c.claims # last.res.start.claims
                   /\ EndRec.SequenceNo = StartRec.SequenceNo + 1
                   /\ EndRec.IssuedAt = last.now
                   /\ last.res.ret = <<SignedString(EndRec)>>
                   /\ last.res.file.bytes = SignedString(EndRec)
             /\ last.res.err # Nil =>
                   /\ last.res.ret = Nil
                   /\ last.res.err[1] = "failed to create new token"

\* a record issued a positive refresh interval ago is rotated by a call made
\* exactly at its ExpiresAt
C2_Witness ==
    /\ RotatedOK
    /\ last.res.start.claims # Nil
    /\ last.now = StartRec.ExpiresAt
    /\ StartRec.ExpiresAt = StartRec.IssuedAt + refresh
    /\ refresh > 0

FileHeldMintedBy(o) ==
    /\ o # last.m
    /\ minted[o] # << >>
    /\ last.preFile.exists
    /\ last.preFile.bytes = SignedString(Last(minted[o]))
    /\ last.now < Last(minted[o]).ExpiresAt

\* C4: persistence round trip.  A manager constructed on the file another
\* manager wrote its last-minted record to, with the clock below that record's
\* ExpiresAt, caches and returns exactly that record: no rotation, no write,
\* the file as it was.  (The construction fails only if reading the file
\* fails.)
C4_RoundTrip ==
    \A o \in Clients :
        (last.op = "New" /\ FileHeldMintedBy(o)) =>
            \/ /\ last.res.err # Nil
               /\ last.res.err[1] = "failed to read token file"
               /\ Has(last.res.io, "stat!") \/ Has(last.res.io, "read!")
            \/ /\ last.res.err = Nil
               /\ last.res.c.claims = <<Last(minted[o])>>
               /\ last.res.ret = <<last.preFile.bytes>>
               /\ ParseToken(last.res.ret[1]).claims = Last(minted[o])
               /\ ~last.res.rotate
               /\ ~Has(last.res.io, "open")
               /\ last.res.file = last.preFile

\* a second manager was constructed, a second after the first minted, on the
\* file the first wrote
C4_Witness ==
    \E o \in Clients :
        /\ last.op = "New"
        /\ FileHeldMintedBy(o)
        /\ Succeeded
        /\ constructed[last.m]
        /\ claims[last.m] = claims[o]
        /\ last.now > Last(minted[o]).IssuedAt

\* the file write of the last call's rotation failed
WriteFailed == Has(last.res.io, "open!") \/ Has(last.res.io, "write!")

\* the retry part of C5: a caller's successful rotation that follows failed
\* calls mints the sequence number after the one cached before the first of
\* those failures
C5_Retry ==
    (last.op = "Token" /\ RotatedOK /\ last.failedFromBefore # Nil) =>
        EndRec.SequenceNo =
            IF last.failedFromBefore[1] = Nil THEN 0
            ELSE last.failedFromBefore[1][1].SequenceNo + 1

\* the refresh interval is positive and no expiry computed from it overflows
SaneRefresh == refresh > 0 /\ MaxNow + refresh <= MaxInt64

\* C5 as claimed: if the file write of a rotation fails, Token() returns an
\* error and the cached claims and bytes are exactly what they were before the
\* call; after failed attempts the next successful Token() mints the
\* pre-failure cached sequence number + 1 (0 if nothing was cached).  (Stated
\* for the runs with a sane refresh interval.)
C5_CacheAsBeforeCall ==
    /\ (CallMade /\ WriteFailed /\ SaneRefresh) =>
          /\ last.res.err # Nil
          /\ last.res.c.claims = last.pre.claims
          /\ last.res.c.jwt = last.pre.jwt
    /\ C5_Retry

\* C5, amended: if the file write of a rotation fails, Token() returns an
\* error and no bytes, and the cached claims and bytes are exactly what they
\* were when the rotation started: what they were before the call if a record
\* was cached then, and otherwise what the call itself loaded from the file
\* (a record if the file held a valid one, nothing if the file was missing).
\* After failed attempts the next successful Token() of the manager mints the
\* pre-failure cached sequence number + 1, and sequence number 0 is minted
\* only when nothing was cached and nothing was loaded.
C5_CacheAsAtRotationStart ==
    /\ (CallMade /\ WriteFailed) =>
          /\ last.res.err # Nil
          /\ last.res.ret = Nil
          /\ last.res.rotate
          /\ last.res.c = last.res.start
          /\ last.pre.claims # Nil => last.res.c = last.pre
          /\ last.pre.claims = Nil =>
                IF last.preFile.exists
                THEN /\ last.res.c.jwt = <<last.preFile.bytes>>
                     /\ last.res.c.claims = <<ParseToken(last.preFile.bytes).claims>>
                ELSE last.res.c.claims = Nil /\ last.res.c.jwt = Nil
    /\ RotatedOK =>
          EndRec.SequenceNo =
              IF last.res.start.claims = Nil THEN 0 ELSE StartRec.SequenceNo + 1
    /\ C5_Retry

\* a caller's rotation succeeded after the manager's previous call had failed
\* on its file write
C5_Witness ==
    /\ last.op = "Token"
    /\ SaneRefresh
    /\ RotatedOK
    /\ last.failedFromBefore # Nil
    /\ last.failedFromBefore[1] = last.pre.claims
    /\ EndRec.SequenceNo = last.pre.claims[1].SequenceNo + 1

\* the bytes decode to no valid claims record
Corrupt(b) == ParseToken(b).err # Nil \/ ~ParseToken(b).valid

\* C6: a corrupt file is fatal.  A construction on an existing file whose
\* contents do not decode to a valid claims record (an empty file included)
\* fails, with a decode error whenever the file could be read; it mints no
\* record, writes nothing, leaves the cache absent and the file as it was,
\* and no manager is returned.
C6_CorruptFileFatal ==
    (last.op = "New" /\ last.preFile.exists /\ Corrupt(last.preFile.bytes)) =>
        /\ last.res.err # Nil
        /\ last.res.ret = Nil
        /\ last.res.io = <<"stat", "read">> =>
              last.res.err[1] \in {"failed to parse token", "failed to read token"}
        /\ last.res.io # <<"stat", "read">> =>
              last.res.err[1] = "failed to read token file"
        /\ ~last.res.rotate
        /\ ~Has(last.res.io, "open")
        /\ last.res.c.claims = Nil
        /\ last.res.c.jwt = Nil
        /\ last.res.file = last.preFile
        /\ ~constructed[last.m]
        /\ minted[last.m] = << >>

\* a construction read an empty file and failed to parse it
C6_Witness ==
    /\ last.op = "New"
    /\ last.preFile.exists
    /\ last.preFile.bytes = << >>
    /\ last.res.io = <<"stat", "read">>
    /\ last.res.err = <<"failed to parse token", "token is malformed">>

\* the errors a fault of the environment gives a call that found no file
FaultErrors ==
    {<<"failed to read token file", "stat failed">>,
     <<"failed to create new token", "failed to create token", "signing failed">>,
     <<"failed to create new token", "open failed">>,
     <<"failed to create new token", "write failed">>}

\* C7: a missing file is not an error.  A construction on a missing file
\* fails only when stat, signing or the file write fails, and otherwise
\* succeeds and creates the file with the returned bytes; after every
\* successful construction the file exists; and newWithClock returns a manager
\* exactly when its Token() call returned no error.
C7_MissingFileOK ==
    /\ last.op = "New" =>
          /\ constructed[last.m] <=> last.res.err = Nil
          /\ last.res.err = Nil => last.res.file.exists /\ file.exists
          /\ ~last.preFile.exists =>
                /\ last.res.err # Nil =>
                      /\ last.res.err \in FaultErrors
                      /\ \/ Has(last.res.io, "stat!")
                         \/ WriteFailed
                         \/ last.res.err[2] = "failed to create token"
                /\ last.res.err = Nil =>
                      /\ last.res.io = <<"stat", "open", "write">>
                      /\ last.res.file.bytes = last.res.ret[1]
    /\ (\E m \in Clients : constructed[m]) => file.exists

\* a manager was constructed on a missing file, which now exists
C7_Witness ==
    /\ last.op = "New"
    /\ ~last.preFile.exists
    /\ Succeeded
    /\ constructed[last.m]
    /\ file.exists
    /\ file.bytes = last.res.ret[1]

\* C8 as claimed: for every refresh interval r > 0 and clock value, the record
\* minted when no prior claims exist has IssuedAt = now, ExpiresAt - IssuedAt
\* = r, SequenceNo = 0 and an empty Previous.
C8_FirstRecord ==
    (RotatedOK /\ last.res.start.claims = Nil /\ refresh > 0) =>
        /\ EndRec.IssuedAt = last.now
        /\ EndRec.ExpiresAt - EndRec.IssuedAt = refresh
        /\ EndRec.SequenceNo = 0
        /\ EndRec.Previous = EmptyString

\* C9: an unreadable file is fatal.  A call whose stat or read of the file
\* fails (with an error other than not-exist) returns the error "failed to
\* read token file" and no bytes, mints no record, writes nothing and leaves
\* the cache absent.
C9_UnreadableFileFatal ==
    (CallMade /\ (Has(last.res.io, "stat!") \/ Has(last.res.io, "read!"))) =>
        /\ last.res.err # Nil
        /\ last.res.err[1] = "failed to read token file"
        /\ last.res.ret = Nil
        /\ ~last.res.rotate
        /\ ~Has(last.res.io, "open") /\ ~Has(last.res.io, "open!")
        /\ last.res.file = last.preFile
        /\ last.res.c.claims = Nil
        /\ last.res.c.jwt = Nil
        /\ ~constructed[last.m]

\* the read of an existing file with a valid record failed
C9_Witness ==
    /\ CallMade
    /\ last.preFile.exists
    /\ ~Corrupt(last.preFile.bytes)
    /\ Has(last.res.io, "read!")
    /\ last.res.err = <<"failed to read token file", "read failed">>

\* C10 as claimed: every record minted by the manager, for every refresh
\* value New accepts, has ExpiresAt > IssuedAt.
C10_ExpiresAfterIssued ==
    \A m \in Clients : \A k \in 1..Len(minted[m]) :
        minted[m][k].ExpiresAt > minted[m][k].IssuedAt

\* a system call of the last call failed
IoFailed == \E e \in {"stat!", "read!", "open!", "write!"} : Has(last.res.io, e)

\* C12: no error is swallowed.  Every Token() call returns either bytes and
\* no error or an error and no bytes; the bytes it returns are the cached
\* ones; a call in which a system call failed returns an error; and a call
\* that found the cached record stale and did not install a successor returns
\* the error, never the stale bytes.
C12_NoErrorSwallowed ==
    CallMade =>
        /\ last.res.err = Nil <=> last.res.ret # Nil
        /\ last.res.ret # Nil => last.res.ret = last.res.c.jwt
        /\ IoFailed => last.res.err # Nil
        /\ (last.res.start.claims # Nil
              /\ last.now >= StartRec.ExpiresAt
              /\ last.res.c.claims = last.res.start.claims) =>
                 /\ last.res.err # Nil
                 /\ last.res.ret = Nil

\* a caller's Token() found the cached record stale, failed to write the
\* successor and returned the error and no bytes
C12_Witness ==
    /\ last.op = "Token"
    /\ SaneRefresh
    /\ last.now >= StartRec.ExpiresAt
    /\ WriteFailed
    /\ last.res.c.jwt # Nil
    /\ last.res.ret = Nil
    /\ last.res.err[1] = "failed to create new token"

\* the file held a valid record before the last call
FileHeldRecord == last.preFile.exists /\ ~Corrupt(last.preFile.bytes)
FileRec == ParseToken(last.preFile.bytes).claims

\* C13: chain continuity across restarts.  A construction on a file that
\* holds a valid, already expired record P rotates: if it succeeds the record
\* it mints has SequenceNo = P.SequenceNo + 1 and Previous = P.Subject, however
\* long ago P expired.  A record with SequenceNo 0 and an empty Previous is
\* minted only when no claims were cached and the file was missing.
C13_ChainAcrossRestart ==
    /\ (last.op = "New" /\ FileHeldRecord /\ last.now >= FileRec.ExpiresAt
          /\ last.res.err = Nil) =>
          /\ last.res.rotate
          /\ last.res.start.claims = <<FileRec>>
          /\ EndRec.SequenceNo = FileRec.SequenceNo + 1
          /\ EndRec.Previous = FileRec.Subject
          /\ EndRec.Subject # FileRec.Subject
    /\ (RotatedOK /\ (EndRec.SequenceNo = 0 \/ EndRec.Previous = EmptyString)) =>
          /\ last.op = "New"
          /\ last.pre.claims = Nil
          /\ last.res.start.claims = Nil
          /\ ~last.preFile.exists
          /\ EndRec.SequenceNo = 0
          /\ EndRec.Previous = EmptyString

\* a manager was constructed on a file whose record had expired more than a
\* second before, and chained its first record off it
C13_Witness ==
    /\ last.op = "New"
    /\ SaneRefresh
    /\ FileHeldRecord
    /\ last.now > FileRec.ExpiresAt
    /\ RotatedOK
    /\ EndRec.SequenceNo = FileRec.SequenceNo + 1
    /\ EndRec.Previous = FileRec.Subject

\* C14 as claimed: for a single manager bound to the file, in every state
\* after its construction and after any Token() calls, failed ones included,
\* the file holds exactly one encoded claims record, the manager's cached one
\* (file bytes = cached bytes).  (Stated for the runs with a sane refresh
\* interval.)
C14_FileMirrorsCache ==
    (SaneRefresh /\ constructed["m1"]) =>
        /\ file.exists
        /\ jwt["m1"] = <<file.bytes>>
        /\ ~Corrupt(file.bytes)
        /\ claims["m1"] = <<ParseToken(file.bytes).claims>>

\* the last call was a successful rotation from a cached record A, and manager
\* o, another one, has as its latest minted record a successor of the same A
BothRotatedFromSame(o) ==
    /\ RotatedOK
    /\ last.res.start.claims # Nil
    /\ o # last.m
    /\ minted[o] # << >>
    /\ Last(minted[o]).Previous = StartRec.Subject

\* C15: two managers on one file race.  Whenever two managers have each
\* rotated from the same cached record A, the two records they minted are
\* distinct, both have SequenceNo = A.SequenceNo + 1 and Previous = A.Subject,
\* and the file holds only the one written last; and such a state is reachable
\* (C15_Witness).
C15_TwoManagersRace ==
    \A o \in Clients :
        BothRotatedFromSame(o) =>
            /\ EndRec.SequenceNo = StartRec.SequenceNo + 1
            /\ Last(minted[o]).SequenceNo = StartRec.SequenceNo + 1
            /\ EndRec.Previous = StartRec.Subject
            /\ EndRec.Subject # Last(minted[o]).Subject
            /\ EndRec # Last(minted[o])
            /\ last.res.file.bytes = SignedString(EndRec)
            /\ last.res.file.bytes # SignedString(Last(minted[o]))

\* both managers held the record A that one of them had minted, A expired,
\* and each then rotated from it; the file holds the second successor only
C15_Witness ==
    \E o \in Clients :
        /\ BothRotatedFromSame(o)
        /\ SaneRefresh
        /\ last.now >= StartRec.ExpiresAt
        /\ Last(minted[o]).IssuedAt >= StartRec.ExpiresAt
        /\ claims[o] = <<Last(minted[o])>>
        /\ claims[last.m] = <<EndRec>>
        /\ claims[o] # claims[last.m]
        /\ file.bytes = SignedString(EndRec)

\* the number of system calls of the kinds in es that a call made
Count(io, es) == Cardinality({i \in DOMAIN io : io[i] \in es})
\* the sequence number of the record that returned bytes encode
SeqOf(ret) == ParseToken(ret[1]).claims.SequenceNo

\* C16: at most one rotation per call.  A call opens the file for writing at
\* most once and writes it at most once; the record cached when it returns is
\* the one cached at the staleness test or, after a successful rotation, the
\* direct successor of that one; and the sequence number a caller's successful
\* Token() returns is that of the manager's previous successful call or one
\* more, however far the clock is past the expiry.
C16_OneRotationPerCall ==
    CallMade =>
        /\ Count(last.res.io, {"open", "open!"}) <= 1
        /\ Count(last.res.io, {"write", "write!"}) <= 1
        /\ ~last.res.rotate => Count(last.res.io, {"open", "open!", "write", "write!"}) = 0
        /\ last.res.c.claims # last.res.start.claims =>
              /\ RotatedOK
              /\ EndRec.SequenceNo =
                    IF last.res.start.claims = Nil THEN 0 ELSE StartRec.SequenceNo + 1
        /\ (last.op = "Token" /\ Succeeded /\ last.returnedBefore # Nil) =>
              SeqOf(last.res.ret) - SeqOf(last.returnedBefore) \in {0, 1}

\* a caller's Token() made two whole refresh intervals or more after the
\* cached record expired rotated once: one write, the next sequence number
C16_Witness ==
    /\ last.op = "Token"
    /\ RotatedOK
    /\ SaneRefresh
    /\ last.now >= StartRec.ExpiresAt + 2 * refresh
    /\ Count(last.res.io, {"write"}) = 1
    /\ last.returnedBefore # Nil
    /\ SeqOf(last.res.ret) = SeqOf(last.returnedBefore) + 1

\* C17: returned tokens are fresh.  Every successful Token() call returns the
\* bytes of a record whose ExpiresAt is strictly greater than the clock value
\* the call observed, for every refresh value New accepts.
C17_ReturnedFresh ==
    Succeeded =>
        /\ last.res.ret = <<SignedString(EndRec)>>
        /\ EndRec.ExpiresAt > last.now

\* C18: a constructed manager always has cached claims and cached bytes; so a
\* caller's Token() makes no stat and no read of the file, tests the cache it
\* was called with, and when that is not stale returns its bytes whatever the
\* file holds by then; and a record with SequenceNo 0 is minted only by a
\* construction on a missing file.
C18_CacheAlwaysPresent ==
    /\ \A m \in Clients :
          constructed[m] =>
              /\ claims[m] # Nil
              /\ jwt[m] # Nil
              /\ \A i \in DOMAIN minted[m] :
                    minted[m][i].SequenceNo = 0 => i = 1 /\ origin[m] = "missing"
    /\ last.op = "Token" =>
          /\ last.pre.claims # Nil /\ last.pre.jwt # Nil
          /\ Count(last.res.io, {"stat", "stat!", "read", "read!"}) = 0
          /\ last.res.start = last.pre
          /\ (Succeeded /\ ~last.res.rotate) => last.res.ret = last.pre.jwt
    /\ (CallMade /\ last.res.rotate /\ last.res.start.claims = Nil) =>
          last.op = "New" /\ ~last.preFile.exists
    /\ (RotatedOK /\ EndRec.SequenceNo = 0) =>
          last.op = "New" /\ ~last.preFile.exists

\* a caller's Token() returned the bytes of its unexpired cached record while
\* the file, changed since the manager cached it, held something else
C18_Witness ==
    /\ last.op = "Token"
    /\ Succeeded
    /\ ~last.res.rotate
    /\ SaneRefresh
    /\ last.preFile.exists
    /\ last.preFile.bytes # last.pre.jwt[1]
    /\ last.res.ret = last.pre.jwt
    /\ last.res.io = << >>
    /\ last.res.file = last.preFile

\* C19: a Token() call made while the cached record is not stale (clock below
\* its ExpiresAt) leaves the file, the cached claims and the cached bytes as
\* they were, makes no system call, mints nothing and returns the cached bytes
\* without error.
C19_FreshCallChangesNothing ==
    (CallMade /\ last.pre.claims # Nil /\ last.now < last.pre.claims[1].ExpiresAt) =>
        /\ last.res.file = last.preFile
        /\ last.res.c = last.pre
        /\ last.res.io = << >>
        /\ ~last.res.rotate
        /\ last.res.err = Nil
        /\ last.res.ret = last.pre.jwt
        /\ file = last.preFile
        /\ claims[last.m] = last.pre.claims
        /\ jwt[last.m] = last.pre.jwt

\* such a call was made, after the record was issued and before it expired,
\* on a manager whose cached bytes are the file's: the file holds what it held
C19_Witness ==
    /\ last.op = "Token"
    /\ last.pre.claims # Nil
    /\ last.now < last.pre.claims[1].ExpiresAt
    /\ last.now > last.pre.claims[1].IssuedAt
    /\ last.preFile.exists
    /\ last.preFile.bytes = last.pre.jwt[1]
    /\ file = last.preFile
    /\ last.res.io = << >>

\* C20: after every successful rotation the file has owner-only read/write
\* permissions, whether this rotation created it or it existed before, with
\* whatever permissions, and was overwritten.  (Stated for the runs with a
\* sane refresh interval.)
C20_OwnerOnlyAfterRotation ==
    (RotatedOK /\ SaneRefresh) =>
        /\ last.res.file.exists
        /\ last.res.file.perm = "0600"

\* no goroutine is inside Token()
AllIdle == \A t \in Threads : thr.pc[t] = "idle"
\* no two distinct records minted by "m1" have the same SequenceNo and the
\* same Previous
OneRotationPerExpiry ==
    \A i, j \in DOMAIN minted["m1"] :
        (/\ minted["m1"][i].SequenceNo = minted["m1"][j].SequenceNo
         /\ minted["m1"][i].Previous = minted["m1"][j].Previous) =>
            minted["m1"][i] = minted["m1"][j]
\* the cached bytes encode the cached claims
JwtEncodesClaims ==
    /\ claims["m1"] # Nil
    /\ jwt["m1"] = <<SignedString(claims["m1"][1])>>

\* C11 as claimed: under every interleaving of unsynchronized Token() calls
\* on one manager, whenever no call is in progress the cached bytes encode the
\* cached claims, and no two distinct records are minted with the same
\* SequenceNo and the same Previous.  (Stated for the runs with a sane refresh
\* interval.)
C11_ConcurrentSafe ==
    (constructed["m1"] /\ SaneRefresh) =>
        /\ AllIdle => JwtEncodesClaims
        /\ OneRotationPerExpiry

\* C11, amended: the same two properties hold as long as the Token() calls on
\* the manager have been made one at a time (no call started while another
\* was in progress).
C11_SerializedSafe ==
    (constructed["m1"] /\ ~thr.overlapped) =>
        /\ AllIdle => JwtEncodesClaims
        /\ OneRotationPerExpiry

\* calls have been made one at a time, two records have been minted, and the
\* latest call has returned the bytes of the consistent cache
C11_Witness ==
    /\ constructed["m1"]
    /\ ~thr.overlapped
    /\ AllIdle
    /\ SaneRefresh
    /\ Len(minted["m1"]) >= 2
    /\ JwtEncodesClaims
    /\ returned["m1"] = jwt["m1"]

====
